---- MODULE Spec2Model ----
(***************************************************************************)
(* World Bank (WDI) -> BigQuery RAW ingest, src/ingest/ingest_worldbank_   *)
(* to_bq.py.  The module models                                            *)
(*   - wb_get_json: one GET attempt per step, with its retry bookkeeping;  *)
(*   - the two pagination drivers fetch_countries_dim and                  *)
(*     fetch_indicators_long, each followed by its pandas normalisation;   *)
(*   - the data path of main: the two normalisations and the referential   *)
(*     filter;                                                             *)
(*   - main run after run against one warehouse: the configuration checks, *)
(*     run_id and load_ts, bq_ensure_tables, the two fetches, the stamping *)
(*     and the two bq_append_df calls, with a fetch as one step (MainSpec) *)
(*     or GET by GET within one run (OneRunSpec).                          *)
(* JSON scalars are string tokens; a key that a record does not carry is   *)
(* ABSENT (pandas fills NaN), a JSON null is NULL (pandas keeps None).     *)
(* Numbers are fixed-point integers in tenths, so that a non-integer       *)
(* numeric such as "2020.5" is a value of the model.                       *)
(***************************************************************************)
EXTENDS Integers, Sequences, FiniteSets, TLC

\* ------------------------------------------------------------------ bounds
MaxPage == 2
MaxCtyRows == 2
MaxIndRows == 2

\* ------------------------------------------------------------ JSON scalars
ABSENT == "<absent>"
NULL == "<null>"

IsNa(x) == x \in {ABSENT, NULL}

\* A cell of the frame: json_normalize fills a missing key with NaN; both
\* NaN and None are null cells.
Cell(x) == IF x = ABSENT THEN NULL ELSE x

\* Series.astype(str): NaN -> "nan", None -> "None", a string is itself.
AsStr(x) == IF x = ABSENT THEN "nan" ELSE IF x = NULL THEN "None" ELSE x

NaN == [nan |-> TRUE, n |-> 0]
Num(t) == [nan |-> FALSE, n |-> t]

\* The numeric literals of the model and their values in tenths.
NumericLiterals ==
  [s \in {"2020", "2021", "2020.5", "5.3", "-34.6", "-58.4"} |->
     CASE s = "2020" -> 20200
       [] s = "2021" -> 20210
       [] s = "2020.5" -> 20205
       [] s = "5.3" -> 53
       [] s = "-34.6" -> 0 - 346
       [] s = "-58.4" -> 0 - 584]

\* pd.to_numeric(x, errors="coerce") on one cell: a parseable string is its
\* number, anything else (NaN, None, "", "NaN", text) is NaN.
ToNumeric(x) ==
  IF x \in DOMAIN NumericLiterals THEN Num(NumericLiterals[x]) ELSE NaN

IsIntegral(v) == v.nan \/ v.n % 10 = 0

\* --------------------------------------------------------------- sequences
SeqsUpTo(S, n) == UNION {[1..k -> S] : k \in 0..n}

Min(a, b) == IF a < b THEN a ELSE b

RECURSIVE Pow2(_)
Pow2(k) == IF k = 0 THEN 1 ELSE 2 * Pow2(k - 1)

\* ------------------------------------------------- results of a function
Returned(v) == [ok |-> TRUE, exc |-> "none", df |-> v]
Raised(e) == [ok |-> FALSE, exc |-> e, df |-> <<>>]

\* A column exists in json_normalize(rows) iff some record carries the key.
HasColumn(rows, f) == \E i \in DOMAIN rows : rows[i][f] # ABSENT

\* ------------------------------------- fetch_indicators_long, lines 77-97
\* The raw keys that the rename map turns into the six selected columns
\* ("country.value" and "indicator.id"/"indicator.value" are the flattened
\* nested keys).
IndRawColumns ==
  {"countryiso3code", "country_value", "date", "indicator_id",
   "indicator_value", "value"}

\* Lines 88-92: rename, select, coerce year and value.
IndCoerce(r) ==
  [country_iso3 |-> Cell(r.countryiso3code),
   country_name |-> Cell(r.country_value),
   year |-> ToNumeric(r.date),
   indicator_code |-> Cell(r.indicator_id),
   indicator_name |-> Cell(r.indicator_value),
   value |-> ToNumeric(r.value)]

\* Line 95: dropna(subset=["country_iso3", "year", "indicator_code"]).
IndKept(c) ==
  /\ ~IsNa(c.country_iso3)
  /\ ~c.year.nan
  /\ ~IsNa(c.indicator_code)

\* The Int64 year of a kept row.
IndFinal(c) == [c EXCEPT !.year = c.year.n \div 10]

NormalizeIndicators(rows) ==
  IF \E f \in IndRawColumns : ~HasColumn(rows, f)
  THEN Raised("KeyError")              \* line 90: df[[...]] on a missing column
  ELSE LET co == [i \in DOMAIN rows |-> IndCoerce(rows[i])]
       IN IF \E i \in DOMAIN co : ~IsIntegral(co[i].year)
          THEN Raised("TypeError")     \* line 91: astype("Int64") of a non-integer
          ELSE LET kept == SelectSeq(co, IndKept)
               IN Returned([i \in DOMAIN kept |-> IndFinal(kept[i])])

\* --------------------------------------- fetch_countries_dim, lines 138-160
CtyKeepColumns ==
  {"id", "iso2Code", "name", "region_value", "incomeLevel_value",
   "lendingType_value", "capitalCity", "latitude", "longitude"}

\* Line 141: df["region.id"].astype(str) != "NA".
NotAggregate(r) == AsStr(r.region_id) # "NA"

\* Lines 154-158: select and rename the kept columns, coerce the geocoding.
CtyCoerce(r) ==
  [country_iso3 |-> Cell(r.id),
   country_iso2 |-> Cell(r.iso2Code),
   country_name |-> Cell(r.name),
   region |-> Cell(r.region_value),
   income_level |-> Cell(r.incomeLevel_value),
   lending_type |-> Cell(r.lendingType_value),
   capital_city |-> Cell(r.capitalCity),
   capital_lat |-> ToNumeric(r.latitude),
   capital_lon |-> ToNumeric(r.longitude)]

NormalizeCountries(rows) ==
  IF ~HasColumn(rows, "region_id")
  THEN Raised("KeyError")              \* line 141: df["region.id"]
  ELSE IF \E f \in CtyKeepColumns : ~HasColumn(rows, f)
  THEN Raised("KeyError")              \* line 154: df[list(keep_cols.keys())]
  ELSE LET kept == SelectSeq(rows, NotAggregate)
       IN Returned([i \in DOMAIN kept |-> CtyCoerce(kept[i])])

\* -------------------------------------------------- main, lines 245-247
\* ValidIso3 without the dropna() of line 246.
ValidIso3KeepNull(countries) ==
  {AsStr(countries[i].country_iso3) : i \in DOMAIN countries}

\* set(countries["country_iso3"].dropna().astype(str).tolist())
ValidIso3(countries) ==
  {AsStr(countries[i].country_iso3) :
     i \in {j \in DOMAIN countries : ~IsNa(countries[j].country_iso3)}}

\* Line 247 left out.
RefFilterOff(ind_df, countries) == ind_df

\* ind_df[ind_df["country_iso3"].astype(str).isin(valid_iso3)]
RefFilter(ind_df, countries) ==
  LET InDim(r) == AsStr(r.country_iso3) \in ValidIso3(countries)
  IN SelectSeq(ind_df, InDim)

\* ============================================================ the fetch
\* ----------------------------------------------------- wb_get_json, 100-118
\* range(1, 4) instead of range(1, 3).
MaxAttemptsOneMore == 2 + 1
MaxAttempts == 2
RetryStatuses == {429, 500, 502, 503, 504}
BaseDelayMs == 800
CeilingMs == 6000

\* time.sleep(min(0.8 * (2 ** (attempt - 1)), 6)), in milliseconds.
Backoff(a) == Min(BaseDelayMs * Pow2(a - 1), CeilingMs)

NoErr == [type |-> "None", status |-> 0]
Err(t, st) == [type |-> t, status |-> st]

\* What the transport can do on one GET: requests.get raises, or a response
\* with a status arrives.
TransportExceptions == {"Timeout", "ConnectionError"}
Statuses == {200, 204, 400, 404, 501, 429, 500, 502, 503, 504}

\* ------------------------------------------------------- response bodies
\* A decoded body is a JSON list of len elements [meta, items] or a JSON
\* object; -1 stands for a metadata key the object does not carry.
NoMeta == [page |-> 0 - 1, pages |-> 0 - 1]
Shape(k, l, m, it, nl) ==
  [kind |-> k, len |-> l, meta |-> m, items |-> it, null |-> nl]
Undecodable == Shape("undecodable", 0, NoMeta, <<>>, FALSE)
DictBody == Shape("dict", 0, NoMeta, <<>>, FALSE)
EmptyList == Shape("list", 0, NoMeta, <<>>, FALSE)
MetaOnly == Shape("list", 1, NoMeta, <<>>, FALSE)
NullPage == Shape("list", 2, [page |-> 0, pages |-> 0], <<>>, TRUE)
PageBody(m, it) == Shape("list", 2, m, it, FALSE)

\* The raw records of the mock API used while paginating.
CtyBase ==
  [id |-> "ARG", iso2Code |-> "AR", name |-> "Argentina", region_id |-> "LCN",
   region_value |-> "Latin America", incomeLevel_value |-> "Upper middle",
   lendingType_value |-> "IBRD", capitalCity |-> "Buenos Aires",
   latitude |-> "-34.6", longitude |-> "-58.4"]
CtyAggregate ==
  [CtyBase EXCEPT !.id = "WLD", !.iso2Code = "1W", !.name = "World",
                  !.region_id = "NA", !.region_value = "Aggregates",
                  !.capitalCity = "", !.latitude = "", !.longitude = ""]
IndBase ==
  [countryiso3code |-> "ARG", country_value |-> "Argentina", date |-> "2020",
   indicator_id |-> "NY.GDP.MKTP.KD.ZG", indicator_value |-> "GDP growth",
   value |-> "5.3"]
IndAggregate ==
  [IndBase EXCEPT !.countryiso3code = "WLD", !.country_value = "World",
                  !.value = NULL]

\* The items sections the mock API serves: no item, one, or both in either
\* order.
PageItems(f) ==
  LET a == IF f = "countries" THEN CtyBase ELSE IndBase
      b == IF f = "countries" THEN CtyAggregate ELSE IndAggregate
  IN {<<>>, <<a>>, <<b>>, <<a, b>>, <<b, a>>}

\* The metadata of a page answer: the API echoes the requested page number
\* and reports a total of at most MaxPage pages, or carries no paging keys.
Metas(p) == {[page |-> p, pages |-> n] : n \in 1..MaxPage} \cup {NoMeta}

\* Every body a 200 response to the request of page p may carry.
Bodies(f, p) ==
  {Undecodable, DictBody, EmptyList, MetaOnly, NullPage}
    \cup {PageBody(m, it) : m \in Metas(p), it \in PageItems(f)}

\* ------------------------------------------------ the pagination loops
Step(nx, rs, e) == [next |-> nx, rows |-> rs, exc |-> e]

\* fetch_indicators_long, lines 66-75, on the decoded body of one page.
LoopIndicators(data, rs) ==
  LET meta == IF data.kind = "list" /\ data.len > 0 THEN data.meta ELSE NoMeta
      hasItems == data.kind = "list" /\ data.len > 1 /\ ~data.null
      items == IF hasItems THEN data.items ELSE <<>>
      pg == IF meta.page = 0 - 1 THEN 1 ELSE meta.page
      pgs == IF meta.pages = 0 - 1 THEN 1 ELSE meta.pages
  IN IF items = <<>> THEN Step("break", rs, "none")
     ELSE IF pg >= pgs THEN Step("break", rs \o items, "none")
     ELSE Step("continue", rs \o items, "none")

\* LoopCountries with > for >= in line 134.
LoopCountriesStrict(data, rs) ==
  IF data.kind # "list" THEN Step("raise", rs, "KeyError")
  ELSE IF data.len < 2 THEN Step("raise", rs, "IndexError")
  ELSE IF data.null THEN Step("raise", rs, "TypeError")
  ELSE IF data.meta.page = 0 - 1 \/ data.meta.pages = 0 - 1
       THEN Step("raise", rs \o data.items, "KeyError")
  ELSE IF data.meta.page > data.meta.pages
       THEN Step("break", rs \o data.items, "none")
  ELSE Step("continue", rs \o data.items, "none")

\* fetch_countries_dim, lines 132-136, on the decoded body of one page.
LoopCountries(data, rs) ==
  IF data.kind # "list" THEN Step("raise", rs, "KeyError")
  ELSE IF data.len < 2 THEN Step("raise", rs, "IndexError")
  ELSE IF data.null THEN Step("raise", rs, "TypeError")
  ELSE IF data.meta.page = 0 - 1 \/ data.meta.pages = 0 - 1
       THEN Step("raise", rs \o data.items, "KeyError")
  ELSE IF data.meta.page >= data.meta.pages
       THEN Step("break", rs \o data.items, "none")
  ELSE Step("continue", rs \o data.items, "none")

Loop(f, data, rs) ==
  IF f = "countries" THEN LoopCountries(data, rs) ELSE LoopIndicators(data, rs)

Normalize(f, rs) ==
  IF f = "countries" THEN NormalizeCountries(rs) ELSE NormalizeIndicators(rs)

\* ------------------------------------------------------------- the state
VARIABLES
  fn,        \* the running driver: "countries" or "indicators"
  pc,        \* "get": about to issue a GET; "returned"; "raised"
  page,      \* the driver's page counter
  rows,      \* the driver's accumulated raw items
  attempt,   \* wb_get_json's loop variable
  last_err,  \* wb_get_json's last_err
  log,       \* the GET attempts of the current wb_get_json call, in order
  slept,     \* the delays slept in the current wb_get_json call, in ms
  served,    \* the decoded bodies wb_get_json returned to the driver
  sent,      \* the page parameter of every GET the driver has caused, in order
  exc,       \* the exception that ended the fetch, if any
  df,        \* the frame the fetch returned
  raw_cty,   \* the raw records fetch_countries_dim accumulated in the run
  raw_ind,   \* the raw records fetch_indicators_long accumulated in the run
  countries, \* main: countries
  ind_df,    \* main: ind_df
  mpc,       \* main: position in the data path
  mexc,      \* main: the exception that ended the run, if any
  cfg,       \* the environment main reads: which settings are present
  run_id,    \* main: run_id, 0 before line 229
  load_ts,   \* main: load_ts, 0 before line 230
  uuids,     \* the number of identifiers uuid4 has handed out
  clock,     \* the wall clock
  runs,      \* the number of invocations of main so far
  ens,       \* bq_ensure_tables: the index of the loop of line 196
  tbl,       \* the warehouse: for each table its existence, schema and rows
  calls      \* the calls the run has made to the API and the warehouse

fetchvars ==
  <<fn, pc, page, rows, attempt, last_err, log, slept, served, sent, exc, df>>
runvars == <<cfg, run_id, load_ts, uuids, clock, runs, ens, tbl, calls>>
mainvars == <<raw_cty, raw_ind, countries, ind_df, mpc, mexc, runvars>>
vars == <<fetchvars, mainvars>>

\* An exception that ends the fetch: its type, the part of the fetch that
\* raised it, and for line 118 the last_err its message carries.
NoExc == [type |-> "none", where |-> "none", last |-> NoErr]
Exc(t, w) == [type |-> t, where |-> w, last |-> NoErr]
\* Line 118: RuntimeError(f"World Bank API failed. Last error: {last_err}").
RuntimeError(e) == [type |-> "RuntimeError", where |-> "wb_get_json", last |-> e]

Outcome(st, ex, js) == [status |-> st, exc |-> ex, json |-> js]

\* The two destination tables, in the order of the loop of line 196.
TblInd == "raw_wb_indicators_long"
TblCty == "raw_country_dim"
Tables == <<TblInd, TblCty>>

NoTable == [exists |-> FALSE, schema |-> "none", rows |-> <<>>]

\* main has not been invoked: a complete environment, an empty warehouse.
RunIdle ==
  /\ cfg = [project |-> TRUE, creds |-> TRUE, years |-> TRUE]
  /\ run_id = 0 /\ load_ts = 0 /\ uuids = 0 /\ clock = 1 /\ runs = 0
  /\ ens = 1
  /\ tbl = [t \in {TblInd, TblCty} |-> NoTable]
  /\ calls = <<>>

MainIdle ==
  /\ raw_cty = <<>> /\ raw_ind = <<>> /\ countries = <<>> /\ ind_df = <<>>
  /\ mpc = "idle" /\ mexc = NoExc
  /\ RunIdle

\* A driver has been called: page = 1, rows = [], first wb_get_json call.
FetchStart(f) ==
  /\ fn = f /\ pc = "get" /\ page = 1 /\ rows = <<>>
  /\ attempt = 1 /\ last_err = NoErr /\ log = <<>> /\ slept = <<>>
  /\ served = <<>> /\ sent = <<>> /\ exc = NoExc /\ df = <<>>

Init == (\E f \in {"countries", "indicators"} : FetchStart(f)) /\ MainIdle

\* NextAttempt with the page counter advanced by the failed attempt.
NextAttemptSkipsPage(o, err, delays) ==
  /\ log' = Append(log, o)
  /\ sent' = Append(sent, page)
  /\ last_err' = err
  /\ slept' = slept \o delays
  /\ page' = page + 1
  /\ IF attempt = MaxAttempts
       THEN pc' = "raised" /\ exc' = RuntimeError(err) /\ attempt' = attempt
       ELSE pc' = "get" /\ exc' = exc /\ attempt' = attempt + 1
  /\ UNCHANGED <<fn, rows, served, df>>

\* The end of one attempt that did not return: the for loop goes on, or it
\* is exhausted and line 118 raises.
NextAttempt(o, err, delays) ==
  /\ log' = Append(log, o)
  /\ sent' = Append(sent, page)
  /\ last_err' = err
  /\ slept' = slept \o delays
  /\ IF attempt = MaxAttempts
       THEN pc' = "raised" /\ exc' = RuntimeError(err) /\ attempt' = attempt
       ELSE pc' = "get" /\ exc' = exc /\ attempt' = attempt + 1
  /\ UNCHANGED <<fn, page, rows, served, df>>

\* Line 105 raises (timeout, connection failure): lines 114-117.
GetRaises ==
  /\ pc = "get"
  /\ \E e \in TransportExceptions :
       NextAttempt(Outcome(0, e, FALSE), Err(e, 0), <<Backoff(attempt)>>)
  /\ UNCHANGED mainvars

\* Lines 106-107 with a body r.json() cannot decode: the decode error is
\* raised inside the try and handled by lines 114-117.
GetUndecodable ==
  /\ pc = "get"
  /\ Undecodable \in Bodies(fn, page)
  /\ NextAttempt(Outcome(200, "none", FALSE), Err("JSONDecodeError", 200),
                 <<Backoff(attempt)>>)
  /\ UNCHANGED mainvars

\* Lines 108-112: a retryable status sleeps and continues; last_err is not
\* assigned.
GetRetryable ==
  /\ pc = "get"
  /\ \E st \in Statuses \cap RetryStatuses :
       NextAttempt(Outcome(st, "none", FALSE), last_err, <<Backoff(attempt)>>)
  /\ UNCHANGED mainvars

\* Line 113 for a status >= 400 outside the retry set: raise_for_status
\* raises HTTPError inside the try, which lines 114-117 handle.
GetHttpError ==
  /\ pc = "get"
  /\ \E st \in Statuses \ RetryStatuses :
       /\ st >= 400
       /\ NextAttempt(Outcome(st, "none", FALSE), Err("HTTPError", st),
                      <<Backoff(attempt)>>)
  /\ UNCHANGED mainvars

\* Line 113 for a status below 400 other than 200: raise_for_status returns
\* and the for loop goes on without a sleep.
GetOtherStatus ==
  /\ pc = "get"
  /\ \E st \in Statuses \ RetryStatuses :
       /\ st # 200 /\ st < 400
       /\ NextAttempt(Outcome(st, "none", FALSE), last_err, <<>>)
  /\ UNCHANGED mainvars

\* Lines 106-107 return the decoded body; the driver runs its loop body on
\* it and either calls wb_get_json for the next page, raises, or leaves the
\* loop and normalises.
GetOk ==
  /\ pc = "get"
  /\ page <= MaxPage
  /\ \E b \in Bodies(fn, page) \ {Undecodable} :
       LET o == Outcome(200, "none", TRUE)
           st == Loop(fn, b, rows)
           res == Normalize(fn, st.rows)
       IN /\ served' = Append(served, b)
          /\ sent' = Append(sent, page)
          /\ rows' = st.rows
          /\ CASE st.next = "continue" ->
                    /\ page' = page + 1
                    /\ attempt' = 1 /\ last_err' = NoErr
                    /\ log' = <<>> /\ slept' = <<>>
                    /\ UNCHANGED <<pc, exc, df>>
               [] st.next = "raise" ->
                    /\ pc' = "raised" /\ exc' = Exc(st.exc, "loop")
                    /\ log' = Append(log, o)
                    /\ UNCHANGED <<page, attempt, last_err, slept, df>>
               [] st.next = "break" ->
                    /\ pc' = IF res.ok THEN "returned" ELSE "raised"
                    /\ exc' = IF res.ok THEN exc ELSE Exc(res.exc, "normalize")
                    /\ df' = res.df
                    /\ log' = Append(log, o)
                    /\ UNCHANGED <<page, attempt, last_err, slept>>
  /\ UNCHANGED <<fn, mainvars>>

Next ==
  \/ GetRaises
  \/ GetUndecodable
  \/ GetRetryable
  \/ GetHttpError
  \/ GetOtherStatus
  \/ GetOk

Spec == Init /\ [][Next]_vars

\* ===================================================== the data path of main
\* main, lines 236-250, on the raw records the two drivers accumulated: the
\* country normalisation, the observation normalisation, the referential
\* filter.  The raw records of a run are drawn from the pools below.
CtyRecords ==
  {CtyBase,
   CtyAggregate,
   [CtyBase EXCEPT !.id = "BRA", !.region_id = ABSENT, !.region_value = ABSENT],
   [CtyBase EXCEPT !.id = "CHL", !.latitude = "abc", !.longitude = NULL],
   [CtyBase EXCEPT !.id = "PER", !.latitude = ABSENT, !.longitude = ABSENT],
   [CtyBase EXCEPT !.id = NULL]}

IndRecords ==
  {IndBase,
   IndAggregate,
   [IndBase EXCEPT !.countryiso3code = ABSENT],
   [IndBase EXCEPT !.countryiso3code = NULL],
   [IndBase EXCEPT !.countryiso3code = "None"],
   [IndBase EXCEPT !.date = "20x"],
   [IndBase EXCEPT !.date = NULL],
   [IndBase EXCEPT !.date = "2020.5"],
   [IndBase EXCEPT !.indicator_id = NULL, !.indicator_value = NULL],
   [IndBase EXCEPT !.countryiso3code = "CHL", !.date = "2021", !.value = "NaN"],
   [IndBase EXCEPT !.countryiso3code = "PER", !.value = ""]}

FetchIdle ==
  /\ fn = "none" /\ pc = "idle" /\ page = 1 /\ rows = <<>>
  /\ attempt = 1 /\ last_err = NoErr /\ log = <<>> /\ slept = <<>>
  /\ served = <<>> /\ sent = <<>> /\ exc = NoExc /\ df = <<>>

DataInit ==
  /\ FetchIdle
  /\ raw_cty = <<>> /\ raw_ind = <<>> /\ countries = <<>> /\ ind_df = <<>>
  /\ mpc = "countries" /\ mexc = NoExc
  /\ RunIdle

\* Line 237: countries = fetch_countries_dim(), on the accumulated records rs.
MainCountries ==
  /\ mpc = "countries"
  /\ \E rs \in SeqsUpTo(CtyRecords, MaxCtyRows) :
       LET res == NormalizeCountries(rs)
       IN /\ raw_cty' = rs
          /\ countries' = res.df
          /\ mpc' = IF res.ok THEN "indicators" ELSE "raised"
          /\ mexc' = IF res.ok THEN NoExc ELSE Exc(res.exc, "countries")
  /\ UNCHANGED <<raw_ind, ind_df, fetchvars, runvars>>

\* Line 243: ind_df = fetch_indicators_long(...), on the accumulated records rs.
MainIndicators ==
  /\ mpc = "indicators"
  /\ \E rs \in SeqsUpTo(IndRecords, MaxIndRows) :
       LET res == NormalizeIndicators(rs)
       IN /\ raw_ind' = rs
          /\ ind_df' = res.df
          /\ mpc' = IF res.ok THEN "filter" ELSE "raised"
          /\ mexc' = IF res.ok THEN NoExc ELSE Exc(res.exc, "indicators")
  /\ raw_cty' = <<>>
  /\ UNCHANGED <<countries, fetchvars, runvars>>

\* Lines 246-247: the referential filter.
MainFilter ==
  /\ mpc = "filter"
  /\ ind_df' = RefFilter(ind_df, countries)
  /\ mpc' = "filtered"
  /\ UNCHANGED <<raw_cty, raw_ind, countries, mexc, fetchvars, runvars>>

DataNext == MainCountries \/ MainIndicators \/ MainFilter

DataSpec == DataInit /\ [][DataNext]_vars

\* ===================================================================== main
\* main, lines 214-260, run after run against one warehouse.  MaxRuns bounds
\* the number of invocations.
MaxRuns == 2

\* The environment of an invocation: GCP_PROJECT_ID is set, so is
\* GOOGLE_APPLICATION_CREDENTIALS, and WB_START_YEAR / WB_END_YEAR parse as
\* integers.
Cfgs == [project : BOOLEAN, creds : BOOLEAN, years : BOOLEAN]

Call(op, arg) == [op |-> op, arg |-> arg]

\* A table as create_table leaves it: the schema of lines 170-194, no rows.
NewTable == [exists |-> TRUE, schema |-> "declared", rows |-> <<>>]

\* datetime.now() evaluated for every row instead of the run's load_ts.
StampNow(t, ts, id) ==
  [i \in DOMAIN t |-> t[i] @@ [load_ts |-> ts + i, run_id |-> id]]

\* Lines 238-239 and 249-250: the frame with the two provenance columns.
Stamp(t, ts, id) ==
  [i \in DOMAIN t |-> t[i] @@ [load_ts |-> ts, run_id |-> id]]

\* The first invocation of main is about to start: any environment, each
\* table absent or present and empty.
MainInit ==
  /\ FetchIdle
  /\ raw_cty = <<>> /\ raw_ind = <<>> /\ countries = <<>> /\ ind_df = <<>>
  /\ mpc = "main" /\ mexc = NoExc
  /\ cfg \in Cfgs
  /\ run_id = 0 /\ load_ts = 0 /\ uuids = 0 /\ clock = 1 /\ runs = 1
  /\ ens = 1
  /\ tbl \in [{TblInd, TblCty} -> {NoTable, NewTable}]
  /\ calls = <<>>

\* Lines 220-223 with the check of line 222 left out.
MissingProjectOnly == ~cfg.project

\* Lines 220-223: either check raises ValueError.
MissingConfig == ~cfg.project \/ ~cfg.creds

\* Lines 215-232: the configuration checks, run_id, load_ts, the client.
\* uuid4 hands out an identifier it has not handed out before.
RunStart ==
  /\ mpc = "main"
  /\ IF MissingConfig
       THEN /\ mpc' = "raised" /\ mexc' = Exc("ValueError", "config")
            /\ UNCHANGED <<run_id, load_ts, uuids>>
     ELSE IF ~cfg.years
       THEN /\ mpc' = "raised" /\ mexc' = Exc("ValueError", "years")
            /\ UNCHANGED <<run_id, load_ts, uuids>>
     ELSE /\ run_id' = uuids + 1 /\ uuids' = uuids + 1
          /\ load_ts' = clock
          /\ mpc' = "ensure" /\ mexc' = mexc
  /\ UNCHANGED <<raw_cty, raw_ind, countries, ind_df, cfg, clock, runs, ens,
                 tbl, calls, fetchvars>>

\* One pass of the loop of lines 196-201 for the table Tables[ens]:
\* get_table returns, which it can only do for a table that exists, or it
\* raises (NotFound or any other error) and create_table is called;
\* create_table creates a table that does not exist and raises otherwise.
RunEnsureTable ==
  /\ mpc = "ensure"
  /\ LET t == Tables[ens]
         Proceed == IF ens < Len(Tables)
                      THEN ens' = ens + 1 /\ mpc' = mpc
                      ELSE ens' = ens /\ mpc' = "countries"
     IN \E got \in BOOLEAN :
          /\ got => tbl[t].exists
          /\ IF got
               THEN /\ calls' = Append(calls, Call("get_table", t))
                    /\ tbl' = tbl /\ mexc' = mexc /\ Proceed
               ELSE /\ calls' = calls \o <<Call("get_table", t),
                                           Call("create_table", t)>>
                    /\ \E created \in BOOLEAN :
                         /\ created => ~tbl[t].exists
                         /\ IF created
                              THEN /\ tbl' = [tbl EXCEPT ![t] = NewTable]
                                   /\ mexc' = mexc /\ Proceed
                              ELSE /\ tbl' = tbl /\ ens' = ens
                                   /\ mpc' = "raised"
                                   /\ mexc' = Exc(IF tbl[t].exists
                                                    THEN "Conflict"
                                                    ELSE "GoogleAPIError",
                                                  "create_table")
  /\ UNCHANGED <<raw_cty, raw_ind, countries, ind_df, cfg, run_id, load_ts,
                 uuids, clock, runs, fetchvars>>

\* Lines 237-239 once fetch_countries_dim() has ended in res.
GotCountries(res) ==
  /\ countries' = IF res.ok THEN Stamp(res.df, load_ts, run_id) ELSE countries
  /\ mpc' = IF res.ok THEN "indicators" ELSE "raised"
  /\ mexc' = IF res.ok THEN mexc ELSE Exc(res.exc, "countries")

\* Lines 242-243 once fetch_indicators_long() has ended in res.
GotIndicators(res) ==
  /\ ind_df' = IF res.ok THEN res.df ELSE ind_df
  /\ mpc' = IF res.ok THEN "filter" ELSE "raised"
  /\ mexc' = IF res.ok THEN mexc ELSE Exc(res.exc, "indicators")

\* What a call of driver f ends in: wb_get_json raises, or the driver
\* normalises the items it has accumulated.
FetchResults(f) ==
  {Raised("RuntimeError")} \cup {Normalize(f, rs) : rs \in PageItems(f)}

\* Lines 237-239, the fetch taken as one step.
RunCountries ==
  /\ mpc = "countries" /\ pc = "idle"
  /\ calls' = Append(calls, Call("fetch", "countries"))
  /\ \E res \in FetchResults("countries") : GotCountries(res)
  /\ UNCHANGED <<raw_cty, raw_ind, ind_df, cfg, run_id, load_ts, uuids, clock,
                 runs, ens, tbl, fetchvars>>

\* Lines 242-243, the fetch taken as one step.
RunIndicators ==
  /\ mpc = "indicators" /\ pc = "idle"
  /\ calls' = Append(calls, Call("fetch", "indicators"))
  /\ \E res \in FetchResults("indicators") : GotIndicators(res)
  /\ UNCHANGED <<raw_cty, raw_ind, countries, cfg, run_id, load_ts, uuids,
                 clock, runs, ens, tbl, fetchvars>>

\* Lines 246-250: the referential filter, then the provenance columns.
RunFilter ==
  /\ mpc = "filter"
  /\ ind_df' = Stamp(RefFilter(ind_df, countries), load_ts, run_id)
  /\ mpc' = "append_cty"
  /\ UNCHANGED <<raw_cty, raw_ind, countries, mexc, runvars, fetchvars>>

\* WRITE_TRUNCATE instead of WRITE_APPEND in line 210.
BqTruncate(t, batch, ok) ==
  /\ calls' = Append(calls, Call("load", t))
  /\ tbl' = IF ok THEN [tbl EXCEPT ![t].rows = batch] ELSE tbl

\* A failed load job is issued a second time.
BqAppendRetry(t, batch, ok) ==
  /\ calls' = IF ok THEN Append(calls, Call("load", t))
                     ELSE calls \o <<Call("load", t), Call("load", t)>>
  /\ tbl' = IF ok THEN [tbl EXCEPT ![t].rows = @ \o batch] ELSE tbl

\* bq_append_df, lines 208-212: one load job with WRITE_APPEND, waited for;
\* it commits the whole batch after the table's rows, or fails and commits
\* nothing.
BqAppend(t, batch, ok) ==
  /\ calls' = Append(calls, Call("load", t))
  /\ tbl' = IF ok THEN [tbl EXCEPT ![t].rows = @ \o batch] ELSE tbl

\* Line 254: bq_append_df(client, cty_table, countries).
RunAppendCountries ==
  /\ mpc = "append_cty"
  /\ \E ok \in BOOLEAN :
       /\ BqAppend(TblCty, countries, ok)
       /\ mpc' = IF ok THEN "append_ind" ELSE "raised"
       /\ mexc' = IF ok THEN mexc ELSE Exc("LoadError", TblCty)
  /\ UNCHANGED <<raw_cty, raw_ind, countries, ind_df, cfg, run_id, load_ts,
                 uuids, clock, runs, ens, fetchvars>>

\* Line 257: bq_append_df(client, ind_table, ind_df).
RunAppendIndicators ==
  /\ mpc = "append_ind"
  /\ \E ok \in BOOLEAN :
       /\ BqAppend(TblInd, ind_df, ok)
       /\ mpc' = IF ok THEN "done" ELSE "raised"
       /\ mexc' = IF ok THEN mexc ELSE Exc("LoadError", TblInd)
  /\ UNCHANGED <<raw_cty, raw_ind, countries, ind_df, cfg, run_id, load_ts,
                 uuids, clock, runs, ens, fetchvars>>

\* The process has ended and main is invoked again: a new environment, a
\* clock that has not gone back, fresh locals, the same warehouse.
RunAgain ==
  /\ mpc \in {"done", "raised"}
  /\ runs < MaxRuns
  /\ runs' = runs + 1
  /\ cfg' \in Cfgs
  /\ clock' \in {clock, clock + 1}
  /\ mpc' = "main" /\ mexc' = NoExc
  /\ run_id' = 0 /\ load_ts' = 0 /\ ens' = 1
  /\ countries' = <<>> /\ ind_df' = <<>> /\ calls' = <<>>
  /\ UNCHANGED <<raw_cty, raw_ind, uuids, tbl, fetchvars>>

MainNext ==
  \/ RunStart
  \/ RunEnsureTable
  \/ RunCountries
  \/ RunIndicators
  \/ RunFilter
  \/ RunAppendCountries
  \/ RunAppendIndicators
  \/ RunAgain

MainSpec == MainInit /\ [][MainNext]_vars

\* ------------------------------------------- one run, GET by GET
\* main calls driver f: page = 1, rows = [], the first wb_get_json call.
CallDriver(f) ==
  /\ fn' = f /\ pc' = "get" /\ page' = 1 /\ rows' = <<>>
  /\ attempt' = 1 /\ last_err' = NoErr /\ log' = <<>> /\ slept' = <<>>
  /\ served' = <<>> /\ sent' = <<>> /\ exc' = NoExc /\ df' = <<>>

\* What the driver that has ended hands to main.
DriverResult == [ok |-> pc = "returned", exc |-> exc.type, df |-> df]

\* Line 237: main calls fetch_countries_dim().
RunCallCountries ==
  /\ mpc = "countries" /\ pc = "idle"
  /\ CallDriver("countries")
  /\ calls' = Append(calls, Call("fetch", "countries"))
  /\ UNCHANGED <<raw_cty, raw_ind, countries, ind_df, mpc, mexc, cfg, run_id,
                 load_ts, uuids, clock, runs, ens, tbl>>

\* Lines 237-239: fetch_countries_dim() has returned or raised.
RunCountriesEnd ==
  /\ mpc = "countries" /\ pc \in {"returned", "raised"}
  /\ GotCountries(DriverResult)
  /\ pc' = "idle"
  /\ UNCHANGED <<fn, page, rows, attempt, last_err, log, slept, served, sent,
                 exc, df>>
  /\ UNCHANGED <<raw_cty, raw_ind, ind_df, runvars>>

\* Line 243: main calls fetch_indicators_long(...).
RunCallIndicators ==
  /\ mpc = "indicators" /\ pc = "idle"
  /\ CallDriver("indicators")
  /\ calls' = Append(calls, Call("fetch", "indicators"))
  /\ UNCHANGED <<raw_cty, raw_ind, countries, ind_df, mpc, mexc, cfg, run_id,
                 load_ts, uuids, clock, runs, ens, tbl>>

\* Lines 242-243: fetch_indicators_long(...) has returned or raised.
RunIndicatorsEnd ==
  /\ mpc = "indicators" /\ pc \in {"returned", "raised"}
  /\ GotIndicators(DriverResult)
  /\ pc' = "idle"
  /\ UNCHANGED <<fn, page, rows, attempt, last_err, log, slept, served, sent,
                 exc, df>>
  /\ UNCHANGED <<raw_cty, raw_ind, countries, runvars>>

OneRunNext ==
  \/ RunStart
  \/ RunEnsureTable
  \/ RunCallCountries
  \/ RunCountriesEnd
  \/ RunCallIndicators
  \/ RunIndicatorsEnd
  \/ Next
  \/ RunFilter
  \/ RunAppendCountries
  \/ RunAppendIndicators

OneRunSpec == MainInit /\ [][OneRunNext]_vars

\* ================================================== properties of the fetch
Last(q) == q[Len(q)]

RECURSIVE Flatten(_)
\* The items sections of the bodies in q, concatenated in order.
Flatten(q) == IF q = <<>> THEN <<>> ELSE Head(q).items \o Flatten(Tail(q))

\* An attempt that ended in a transient failure: a retryable status or an
\* exception raised by the transport.
Transient(o) == o.exc # "none" \/ o.status \in RetryStatuses

\* An attempt that ended in an error status outside the retry set.
NonRetryable(o) ==
  o.exc = "none" /\ o.status >= 400 /\ o.status \notin RetryStatuses

\* An attempt that ended in an error: an exception of the transport, an
\* error status, or an undecodable body.
Failed(o) == o.exc # "none" \/ o.status >= 400 \/ (o.status = 200 /\ ~o.json)

\* The error of an attempt that ended in one.
AttemptError(o) ==
  IF o.exc # "none" THEN Err(o.exc, 0)
  ELSE IF o.status = 200 THEN Err("JSONDecodeError", 200)
  ELSE Err("HTTPError", o.status)

\* The current wb_get_json call has raised.
CallFailed == pc = "raised" /\ exc.where = "wb_get_json"

\* The current wb_get_json call has raised the failure of line 118.
Exhausted == CallFailed /\ exc.type = "RuntimeError"

\* C1: when the first attempt of a wb_get_json call returns a non-success
\* status outside {429, 500, 502, 503, 504}, that call has issued exactly
\* one GET and has failed, without a retry.
C1_NonRetryableIsTerminal ==
  (log # <<>> /\ NonRetryable(log[1])) => (Len(log) = 1 /\ CallFailed)

\* C2 as stated: on a transport that fails transiently on every attempt a
\* call issues exactly 2 GETs and then raises one failure; no call issues
\* more than 2 GETs; no GET follows a 200 response.
C2_TwoAttemptsNoneAfter200 ==
  /\ Len(log) <= 2
  /\ (\A i \in DOMAIN log : Transient(log[i])) =>
       /\ Len(log) = 2 => Exhausted
       /\ Len(log) < 2 => pc = "get"
  /\ \A i \in DOMAIN log : log[i].status = 200 => i = Len(log)

\* C2 amended: as C2, but the 200 response after which no GET follows is
\* one whose body decoded; a 200 response with an undecodable body is a
\* failed attempt and is retried.
C2_TwoAttemptsNoneAfterDecoded200 ==
  /\ Len(log) <= 2
  /\ (\A i \in DOMAIN log : Transient(log[i])) =>
       /\ Len(log) = 2 => Exhausted
       /\ Len(log) < 2 => pc = "get"
  /\ \A i \in DOMAIN log : (log[i].status = 200 /\ log[i].json) => i = Len(log)

\* A call that failed transiently twice and raised.
C2_Witness ==
  /\ Len(log) = 2 /\ \A i \in DOMAIN log : Transient(log[i])
  /\ Exhausted

\* C3: the failure raised when the attempts are exhausted carries the error
\* of the final attempt.
C3_CarriesLastError ==
  (Exhausted /\ Failed(Last(log))) => exc.last = AttemptError(Last(log))

\* The pages served so far are well-formed, every page but the last reports
\* page < pages with items, and the last reports page == pages.
C4_Pages ==
  /\ served # <<>>
  /\ \A i \in DOMAIN served :
       /\ served[i].kind = "list" /\ served[i].len = 2 /\ ~served[i].null
       /\ served[i].meta.page >= 1 /\ served[i].meta.pages >= 1
       /\ i < Len(served) =>
            served[i].meta.page < served[i].meta.pages /\ served[i].items # <<>>
  /\ Last(served).meta.page = Last(served).meta.pages

\* C4: for such a sequence of pages both drivers leave the loop after the
\* final page, having requested exactly these pages, and the accumulated
\* raw items are the pages' items concatenated in page order.
C4_PaginationCollectsAllPages ==
  C4_Pages =>
    /\ pc # "get"
    /\ exc.where # "loop"
    /\ page = Len(served)
    /\ rows = Flatten(served)

\* Two pages of items have been collected, the first with two items.
C4_Witness ==
  /\ C4_Pages /\ Len(served) = 2 /\ Len(served[1].items) = 2
  /\ served[2].items # <<>>
  /\ pc = "returned"

\* C5: a page whose items list is empty ends the pagination at that page,
\* whatever its metadata, and the fetch completes without an error.
C5_EmptyPageGuard ==
  (served # <<>> /\ Last(served).len = 2 /\ ~Last(served).null
     /\ Last(served).meta.page >= 1 /\ Last(served).meta.pages >= 1
     /\ Last(served).items = <<>>)
    => (pc = "returned" /\ page = Len(served))

\* C6: a decoded list of fewer than two elements ends the loop at that page
\* with the items accumulated so far; the loop does not raise.
C6_MalformedGuard ==
  (served # <<>> /\ Last(served).kind = "list" /\ Last(served).len < 2)
    => (pc # "get" /\ exc.where # "loop" /\ page = Len(served)
        /\ rows = Flatten(served))

\* The number of GETs sent for page p.
SentFor(p) == Cardinality({i \in DOMAIN sent : sent[i] = p})

\* C18: the GETs of a fetch go to pages 1, 2, 3, ... without a gap and never
\* back to an earlier page; no page is requested more than twice, whatever
\* the attempts spent on the pages before it; a retry requests the page of
\* the failed attempt; the page counter moves only by one and only with a
\* decoded 200 answer to the GET for that page; the accumulated items are
\* the items of the accepted pages, each once, in order.
C18_RetryPerPage ==
  /\ [](/\ \A i \in DOMAIN sent :
             /\ i = 1 => sent[i] = 1
             /\ i > 1 => sent[i] \in {sent[i - 1], sent[i - 1] + 1}
        /\ \A p \in 1..page : SentFor(p) <= 2
        /\ SentFor(page) = Len(log)
        /\ pc = "get" => (attempt = Len(log) + 1 /\ page = Len(served) + 1)
        /\ rows = Flatten(served))
  /\ [][/\ sent' # sent => sent' = Append(sent, page)
        /\ attempt' = attempt + 1 => page' = page
        /\ page' # page =>
             /\ page' = page + 1
             /\ Len(served') = Len(served) + 1
             /\ attempt' = 1 /\ log' = <<>>]_vars

\* The second page has been accepted on the second attempt, after the first
\* page took two attempts as well.
C18_Witness ==
  /\ sent = <<1, 1, 2, 2>> /\ Len(served) = 2
  /\ pc = "returned" /\ Len(rows) > 2

RECURSIVE DelaysDue(_, _)
\* The delays in ms that the attempts q, the first of them attempt a, call
\* for: none after an answer of 200, min(800 * 2^(a-1), 6000) after any other.
DelaysDue(q, a) ==
  IF q = <<>> THEN <<>>
  ELSE (IF Head(q).status = 200 THEN <<>>
        ELSE <<Min(800 * Pow2(a - 1), 6000)>>) \o DelaysDue(Tail(q), a + 1)

\* C19: the delays a wb_get_json call has slept are exactly one delay of
\* min(800 * 2^(attempt-1), 6000) ms for each of its attempts that was not
\* answered 200, in order (800 after attempt 1, 1600 after attempt 2), and
\* none for an attempt that returned.  Stated for the calls in which every
\* answer of 200 could be decoded.
C19_BackoffAfterEveryFailure ==
  (\A i \in DOMAIN log : log[i].status = 200 => log[i].json) =>
    slept = DelaysDue(log, 1)

\* ============================================== properties of the data path
Present(x) == x # ABSENT /\ x # NULL
IsNumeric(x) == x \in DOMAIN NumericLiterals
NumberOrNull(x) == IF IsNumeric(x) THEN Num(NumericLiterals[x]) ELSE NaN
NullIfMissing(x) == IF Present(x) THEN x ELSE NULL

IndDone == mpc = "filter" \/ (mpc = "raised" /\ mexc.where = "indicators")
CtyDone == mpc = "indicators" \/ (mpc = "raised" /\ mexc.where = "countries")

\* The observation table the records rs stand for: the records with
\* country_iso3, indicator_code and a numeric year, in order, with value
\* null where it is not a number.
WellFormedInd(r) ==
  Present(r.countryiso3code) /\ Present(r.indicator_id) /\ IsNumeric(r.date)
ExpectedIndRow(r) ==
  [country_iso3 |-> r.countryiso3code,
   country_name |-> NullIfMissing(r.country_value),
   year |-> NumericLiterals[r.date] \div 10,
   indicator_code |-> r.indicator_id,
   indicator_name |-> NullIfMissing(r.indicator_value),
   value |-> NumberOrNull(r.value)]
ExpectedInd(rs) ==
  LET kept == SelectSeq(rs, WellFormedInd)
  IN [i \in DOMAIN kept |-> ExpectedIndRow(kept[i])]

\* C7: the observation normalisation returns exactly the raw records that
\* carry country_iso3, indicator_code and a numeric year, in their order,
\* with a non-numeric or empty value turned into null.
C7_KeepsWellFormedRows ==
  IndDone => (mpc = "filter" /\ ind_df = ExpectedInd(raw_ind))

\* C8: whatever the raw records look like, the observation normalisation
\* does not raise and returns a table of well-formed rows.
C8_RowErrorNeverAborts ==
  IndDone =>
    /\ mexc = NoExc
    /\ \A i \in DOMAIN ind_df :
         Present(ind_df[i].country_iso3) /\ Present(ind_df[i].indicator_code)

\* The dimension table the records rs stand for: the records whose region
\* id is not "NA", in order, with unparseable geocoding turned into null.
ExpectedCtyRow(r) ==
  [country_iso3 |-> NullIfMissing(r.id),
   country_iso2 |-> NullIfMissing(r.iso2Code),
   country_name |-> NullIfMissing(r.name),
   region |-> NullIfMissing(r.region_value),
   income_level |-> NullIfMissing(r.incomeLevel_value),
   lending_type |-> NullIfMissing(r.lendingType_value),
   capital_city |-> NullIfMissing(r.capitalCity),
   capital_lat |-> NumberOrNull(r.latitude),
   capital_lon |-> NumberOrNull(r.longitude)]
NotNA(r) == r.region_id # "NA"
ExpectedCty(rs) ==
  LET kept == SelectSeq(rs, NotNA)
  IN [i \in DOMAIN kept |-> ExpectedCtyRow(kept[i])]

\* C9: the country normalisation returns exactly the fetched records whose
\* region id is not "NA", in fetch order, and rejects no record for its
\* latitude or longitude.
C9_DimensionExcludesAggregates ==
  CtyDone => (mpc = "indicators" /\ countries = ExpectedCty(raw_cty))

\* The rows of t whose country_iso3 is the country_iso3 of a row of dim.
ExactMatches(t, dim) ==
  LET Matches(r) == \E j \in DOMAIN dim : dim[j].country_iso3 = r.country_iso3
  IN SelectSeq(t, Matches)

\* C10: after the referential filter the observation batch is exactly the
\* normalised observation rows whose country_iso3 is that of some row of
\* the run's dimension table, in their order.
C10_ReferentialFilter ==
  mpc = "filtered" =>
    ind_df = ExactMatches(NormalizeIndicators(raw_ind).df, countries)

\* The filter has dropped an observation row and kept another.
C10_Witness ==
  /\ mpc = "filtered"
  /\ ind_df # <<>>
  /\ Len(ind_df) < Len(NormalizeIndicators(raw_ind).df)

\* ======================================================= properties of main
\* The rows of table t that carry the run identifier id.
RowsOf(t, id) ==
  LET OfRun(r) == r.run_id = id
  IN SelectSeq(tbl[t].rows, OfRun)

\* Every row of the frame carries the run's run_id and load_ts.
Carries(frame) ==
  \A i \in DOMAIN frame :
    frame[i].run_id = run_id /\ frame[i].load_ts = load_ts

Called(op) == \E i \in DOMAIN calls : calls[i].op = op

\* C11: run_id and load_ts are set before the run's first fetch and are the
\* values every row of the two batches handed to the loader carries; until
\* the run's first append no row of the warehouse carries its run_id, so
\* the rows of two runs never share one.
C11_ProvenanceStamping ==
  /\ Called("fetch") => (run_id # 0 /\ load_ts # 0)
  /\ mpc \in {"indicators", "filter"} => Carries(countries)
  /\ mpc \in {"append_cty", "append_ind", "done"} =>
       (Carries(countries) /\ Carries(ind_df))
  /\ \A t \in {TblInd, TblCty} :
       /\ ~Called("load") => RowsOf(t, run_id) = <<>>
       /\ Carries(RowsOf(t, run_id))

\* A second run is about to append two non-empty batches to tables that
\* hold the rows of the first run.
C11_Witness ==
  /\ mpc = "append_cty" /\ runs = 2
  /\ countries # <<>> /\ ind_df # <<>>
  /\ tbl[TblCty].rows # <<>> /\ tbl[TblInd].rows # <<>>

\* C12: a run whose project id or credential setting is missing has ended
\* in the configuration error without an HTTP request, a table lookup, a
\* table creation or an append.
C12_ConfigErrorBeforeNetwork ==
  (mpc # "main" /\ (~cfg.project \/ ~cfg.creds)) =>
    /\ mpc = "raised" /\ mexc = Exc("ValueError", "config")
    /\ calls = <<>>
    /\ pc = "idle" /\ sent = <<>>

\* A run without the credential setting has ended; the warehouse holds
\* the rows of the run before it.
C12_Witness ==
  /\ mpc = "raised" /\ cfg.project /\ ~cfg.creds
  /\ tbl[TblCty].rows # <<>>

\* The number of appends the run has issued to table t.
Loads(t) == Cardinality({i \in DOMAIN calls : calls[i] = Call("load", t)})

\* C13: a run issues at most one append per table; a failed append ends the
\* run, with no call after it; when the observation append fails after the
\* dimension append, the dimension rows of the run stay in the warehouse
\* and no observation row of the run is there; when the dimension append
\* fails, no observation append is issued.
C13_LoadFailureIsFatal ==
  /\ \A t \in {TblInd, TblCty} : Loads(t) <= 1
  /\ mexc.type = "LoadError" =>
       /\ mpc = "raised"
       /\ Last(calls) = Call("load", mexc.where)
  /\ mexc = Exc("LoadError", TblInd) =>
       /\ RowsOf(TblCty, run_id) = countries
       /\ RowsOf(TblInd, run_id) = <<>>
  /\ mexc = Exc("LoadError", TblCty) =>
       /\ Loads(TblInd) = 0
       /\ RowsOf(TblCty, run_id) = <<>> /\ RowsOf(TblInd, run_id) = <<>>

\* The observation append of non-empty batches has failed.
C13_Witness ==
  /\ mexc = Exc("LoadError", TblInd)
  /\ countries # <<>> /\ ind_df # <<>>

\* C14: no step of any run removes a table or a row: a step leaves the rows
\* of a table as they are or puts the whole batch of the run after them, so
\* a second run on the same source data adds a second copy.
C14_AppendOnly ==
  [][\A t \in {TblInd, TblCty} :
       /\ tbl[t].exists => tbl'[t].exists
       /\ \/ tbl'[t].rows = tbl[t].rows
          \/ t = TblCty /\ tbl'[t].rows = tbl[t].rows \o countries
          \/ t = TblInd /\ tbl'[t].rows = tbl[t].rows \o ind_df]_vars

\* Two runs have appended the same country and the same observation.
C14_Witness ==
  /\ mpc = "done"
  /\ Len(tbl[TblCty].rows) = 2 /\ Len(tbl[TblInd].rows) = 2
  /\ tbl[TblCty].rows[1].run_id # tbl[TblCty].rows[2].run_id
  /\ tbl[TblCty].rows[1].country_iso3 = tbl[TblCty].rows[2].country_iso3
  /\ tbl[TblInd].rows[1].run_id # tbl[TblInd].rows[2].run_id
  /\ tbl[TblInd].rows[1].country_iso3 = tbl[TblInd].rows[2].country_iso3

\* C15: bq_ensure_tables issues create_table for a table only when the
\* table is absent; for a table that exists it raises nothing and leaves
\* the warehouse as it is.
C15_CreateIfMissing ==
  [][/\ \A i \in (Len(calls) + 1)..Len(calls') :
          calls'[i].op = "create_table" => ~tbl[calls'[i].arg].exists
     /\ (mpc = "ensure" /\ tbl[Tables[ens]].exists) =>
          (mpc' # "raised" /\ tbl' = tbl)]_vars

\* C17: every observation row of the warehouse has a dimension row with
\* its run_id and its country_iso3, and a run issues its observation append
\* only after its dimension append has committed the dimension batch.
C17_WarehouseReferentialInvariant ==
  /\ \A i \in DOMAIN tbl[TblInd].rows :
       \E j \in DOMAIN tbl[TblCty].rows :
         /\ tbl[TblCty].rows[j].run_id = tbl[TblInd].rows[i].run_id
         /\ tbl[TblCty].rows[j].country_iso3 = tbl[TblInd].rows[i].country_iso3
  /\ \A i \in DOMAIN calls :
       calls[i] = Call("load", TblInd) =>
         /\ \E j \in 1..(i - 1) : calls[j] = Call("load", TblCty)
         /\ RowsOf(TblCty, run_id) = countries

\* The warehouse holds the observation rows of two runs.
C17_Witness ==
  /\ Len(tbl[TblInd].rows) >= 2
  /\ \E i, j \in DOMAIN tbl[TblInd].rows :
       tbl[TblInd].rows[i].run_id # tbl[TblInd].rows[j].run_id

\* A GET of the driver's last wb_get_json call was answered with an error
\* status outside the retry set, or that call used up its attempts.
FetchFailure ==
  \/ \E i \in DOMAIN log : NonRetryable(log[i])
  \/ exc.where = "wb_get_json"

\* C16: once a page request of either driver has failed, by a non-retryable
\* status or by exhausted retries, the run goes no further than the fetch:
\* it ends in the error and issues no append.
C16_FetchFailureAbortsRun ==
  FetchFailure =>
    (mpc \in {"countries", "indicators", "raised"} /\ ~Called("load"))

====
